---- MODULE Spec2Model ----
\* Model of the pomodoro-timer countdown engine (the useTimer hook) as a
\* state machine: hook state, the closure snapshot of the last render, the
\* interval handles and the settings ref.
EXTENDS Integers, FiniteSets, Sequences, TLC

\* ---------------------------------------------------------------- bounds
\* Longest duration (minutes) a settings record of the model carries.
MaxDur == 2
\* Cap on completed work sessions explored.
MaxSessions == 8
\* Number of interval handles the scheduler can hand out at one time.
MaxIntervals == 2
\* Largest session count a stored 'pomodoro-sessions' entry or a sessionCount
\* prop set by hand carries.
MaxCount == 3

\* ------------------------------------------------------ program constants
SecondsPerMinute == 60
DefaultWorkDuration == 25
DefaultShortBreakDuration == 5
DefaultLongBreakDuration == 15
DefaultPomodorosBeforeLongBreak == 4

\* A field a Partial<TimerSettings> leaves out (undefined): no duration of
\* the model is negative.
Absent == -1
\* intervalRef.current = null
NoInterval == 0

Modes == {"work", "shortBreak", "longBreak"}
TimerStates == {"idle", "running", "paused"}
\* Durations a settings record carries: the shortest valid one and MaxDur.
Durations == {1, MaxDur}
IntervalIds == 1..MaxIntervals

DEFAULT_SETTINGS ==
    [workDuration |-> DefaultWorkDuration,
     shortBreakDuration |-> DefaultShortBreakDuration,
     longBreakDuration |-> DefaultLongBreakDuration,
     pomodorosBeforeLongBreak |-> DefaultPomodorosBeforeLongBreak]

\* The settings records the caller passes: the three durations (as App does
\* with the store's TimerDurations); pomodorosBeforeLongBreak is left out.
SettingsInputs ==
    [workDuration : Durations, shortBreakDuration : Durations,
     longBreakDuration : Durations, pomodorosBeforeLongBreak : {Absent}]

\* Variant of the merge with the spread order reversed: the defaults win.
mergedSettings_defaultsLast(s) ==
    [f \in DOMAIN DEFAULT_SETTINGS |-> DEFAULT_SETTINGS[f]]

\* { ...DEFAULT_SETTINGS, ...settings }
mergedSettings(s) ==
    [f \in DOMAIN DEFAULT_SETTINGS |->
        IF s[f] = Absent THEN DEFAULT_SETTINGS[f] ELSE s[f]]

getDurationForMode(m, s) ==
    CASE m = "work" -> s.workDuration * SecondsPerMinute
      [] m = "shortBreak" -> s.shortBreakDuration * SecondsPerMinute
      [] m = "longBreak" -> s.longBreakDuration * SecondsPerMinute
      [] OTHER -> s.workDuration * SecondsPerMinute

\* ------------------------------------------------- the settings store
\* localStorage.getItem returns null.
NoEntry == [entry |-> FALSE]

\* DEFAULT_DURATIONS of the settings store, as a settings argument.
DEFAULT_DURATIONS ==
    [workDuration |-> DefaultWorkDuration,
     shortBreakDuration |-> DefaultShortBreakDuration,
     longBreakDuration |-> DefaultLongBreakDuration,
     pomodorosBeforeLongBreak |-> Absent]

MinDuration == 1
MaxDuration == 60

\* ------------------------------------------------ values JSON.parse yields
\* A property the parsed object does not have.
Undefined == [t |-> "undefined"]
JsonNull == [t |-> "null"]
JsonArray == [t |-> "array"]
Num(n) == [t |-> "number", v |-> n]
\* A string whose text is the numeral n ("45"): n is what a comparison
\* coerces it to.
Str(n) == [t |-> "string", v |-> n]
Obj(fields) == [t |-> "object", fields |-> fields]

DurationFields == {"workDuration", "shortBreakDuration", "longBreakDuration"}

\* The numbers a stored field or a record given to saveSettings carries:
\* below, at the ends of, inside and above [MinDuration, MaxDuration].
FieldNumbers == {MinDuration - 1, MinDuration, MaxDuration, MaxDuration + 1}

\* What a field of a stored object can be: missing, a string, a number.
FieldValues == {Undefined, Str(MaxDuration)} \cup {Num(n) : n \in FieldNumbers}

\* obj.workDuration etc.: undefined on an array.
fieldOf(value, f) == IF value.t = "object" THEN value.fields[f] ELSE Undefined

\* typeof value === 'number' && !isNaN(value) && value >= 1 && value <= 60
\* (a number JSON.parse yields is never NaN).
isValidDuration(v) ==
    v.t = "number" /\ v.v >= MinDuration /\ v.v <= MaxDuration

\* mergeWithDefaults of a Partial<TimerDurations> o (a function from the
\* three fields to a parsed value or Undefined).
mergeWithDefaults(o) ==
    [f \in DOMAIN DEFAULT_DURATIONS |->
        IF f = "pomodorosBeforeLongBreak" THEN Absent
        ELSE IF isValidDuration(o[f]) THEN o[f].v ELSE DEFAULT_DURATIONS[f]]

\* Variant that rejects the whole record when one field is invalid.
sanitizeDurations_wholeRecord(value) ==
    IF value.t \notin {"object", "array"} THEN JsonNull
    ELSE IF \A f \in DurationFields : isValidDuration(fieldOf(value, f))
    THEN [workDuration |-> fieldOf(value, "workDuration").v,
          shortBreakDuration |-> fieldOf(value, "shortBreakDuration").v,
          longBreakDuration |-> fieldOf(value, "longBreakDuration").v,
          pomodorosBeforeLongBreak |-> Absent]
    ELSE DEFAULT_DURATIONS

\* sanitizeDurations of a parsed value: null for a non-object, the three
\* fields when all are valid, the field-wise merge with the defaults
\* otherwise.
sanitizeDurations(value) ==
    IF value.t \notin {"object", "array"} THEN JsonNull
    ELSE IF \A f \in DurationFields : isValidDuration(fieldOf(value, f))
    THEN [workDuration |-> fieldOf(value, "workDuration").v,
          shortBreakDuration |-> fieldOf(value, "shortBreakDuration").v,
          longBreakDuration |-> fieldOf(value, "longBreakDuration").v,
          pomodorosBeforeLongBreak |-> Absent]
    ELSE mergeWithDefaults(
             [f \in DurationFields |->
                 IF isValidDuration(fieldOf(value, f)) THEN fieldOf(value, f)
                 ELSE Undefined])

\* ------------------------------------------------- the storage entry
\* The text under 'pomodoro-settings': the empty string, text that is not
\* JSON, or the JSON text of a value.
EmptyText == [entry |-> TRUE, text |-> "empty"]
NotJson == [entry |-> TRUE, text |-> "notJson"]
JsonText(value) == [entry |-> TRUE, text |-> "json", value |-> value]

\* if (stored): null and '' are falsy.
truthy(e) == e # NoEntry /\ e # EmptyText

\* JSON.parse throws a SyntaxError on text that is not JSON.
parseThrows(e) == e.text # "json"
JSONparse(e) == e.value

\* Variant that writes the numbers as strings.
JSONstringify_quoted(r) ==
    JsonText(Obj([f \in DurationFields |-> Str(r[f])]))

\* JSON.stringify of a TimerDurations record of numbers.
JSONstringify(r) ==
    JsonText(Obj([f \in DurationFields |-> Num(r[f])]))

\* The TimerDurations records with every duration valid, as stored text.
StoredInputs == {JSONstringify(r) : r \in SettingsInputs} \cup {NoEntry}

\* Every entry the storage can hold when a store instance starts.
StoredEntries ==
    {NoEntry, EmptyText, NotJson}
    \cup {JsonText(v) : v \in {JsonNull, JsonArray, Num(MaxDuration), Str(MaxDuration)}}
    \cup {JsonText(Obj(o)) : o \in [DurationFields -> FieldValues]}

\* ------------------------------------------------- the settings form
\* What parseInt yields for text that does not start with a number.
NaN == [t |-> "NaN"]
\* The empty string a field holds after such an input: a comparison coerces
\* it to 0.
EmptyString == Str(0)

\* The texts typed into an input: nothing, or a numeral (below, at and above
\* the limits), with or without decimals.
InputNumbers == {MinDuration - 1, MinDuration, MaxDuration + 1}
InputTexts ==
    {[digits |-> FALSE]}
    \cup [digits : {TRUE}, int : InputNumbers, decimals : BOOLEAN]

\* parseInt(value, 10): the integer the text starts with.
parseInt(text) == IF text.digits THEN Num(text.int) ELSE NaN

NoError == "undefined"

\* validateValue(value): isNaN('') is false.
validateValue(value) ==
    IF value = NaN THEN "Please enter a valid number"
    ELSE IF value.v < MinDuration THEN "Minimum 1 minute"
    ELSE IF value.v > MaxDuration THEN "Maximum 60 minutes"
    ELSE NoError

\* The form values of a TimerDurations record.
formOf(r) == [f \in DurationFields |-> Num(r[f])]
NoErrors == [f \in DurationFields |-> NoError]

max(a, b) == IF a >= b THEN a ELSE b
min(a, b) == IF a <= b THEN a ELSE b

\* Math.max(MIN, Math.min(MAX, value || default)): 0 and '' are falsy.
submittedDuration(value, default) ==
    max(MinDuration, min(MaxDuration, IF value.v = 0 THEN default ELSE value.v))

\* The record handleSubmit passes to onDurationsChange.
submittedDurations(fv) ==
    [f \in DOMAIN DEFAULT_DURATIONS |->
        IF f = "pomodorosBeforeLongBreak" THEN Absent
        ELSE submittedDuration(fv[f], DEFAULT_DURATIONS[f])]

\* onDurationsChange was not called.
NoCall == [called |-> FALSE]

\* ------------------------------------------------ the session counter
\* The text of a number: sessionCount.toString().
toString(n) == [digits |-> TRUE, int |-> n, decimals |-> FALSE]

\* The 'pomodoro-sessions' entries: none, text that is not a number, a
\* negative count, the counts up to MaxCount.
StoredSessions ==
    {NoEntry, [digits |-> FALSE]} \cup {toString(n) : n \in -1..MaxCount}

\* The displayCount the load effect leaves: the parsed entry when it is a
\* number >= 0, else the initial 0 (also when getItem throws).
loadedCount(e, getItemThrows) ==
    IF getItemThrows \/ e = NoEntry THEN 0
    ELSE IF parseInt(e) # NaN /\ parseInt(e).v >= 0 THEN parseInt(e).v
    ELSE 0

\* ---- the keyboard shortcuts ----

\* The key of a keydown event: the space bar (and its legacy name), r in
\* both cases, and keys that are no shortcut.
Keys == {" ", "Spacebar", "r", "R", "p", "Enter"}

\* event.key.toLowerCase()
toLowerCase(key) ==
    CASE key = "Spacebar" -> "spacebar"
      [] key = "R" -> "r"
      [] key = "Enter" -> "enter"
      [] OTHER -> key

\* document.activeElement is null.
NoElement == [element |-> FALSE]

\* getAttribute('contenteditable') of an element without the attribute.
NoAttribute == "null"

\* The element that has the focus: none, the body, a button, the form
\* controls, and a div with each value of the contenteditable attribute.
FocusElements ==
    {NoElement}
      \cup {[tagName |-> t, contenteditable |-> NoAttribute] :
               t \in {"BODY", "BUTTON", "INPUT", "TEXTAREA", "SELECT"}}
      \cup {[tagName |-> "DIV", contenteditable |-> c] :
               c \in {NoAttribute, "true", "false", ""}}

\* element.tagName.toLowerCase()
tagNameLower(tagName) ==
    CASE tagName = "BODY" -> "body"
      [] tagName = "BUTTON" -> "button"
      [] tagName = "INPUT" -> "input"
      [] tagName = "TEXTAREA" -> "textarea"
      [] tagName = "SELECT" -> "select"
      [] tagName = "DIV" -> "div"

\* isInputElement(element)
isInputElement(element) ==
    IF element = NoElement THEN FALSE
    ELSE \/ tagNameLower(element.tagName) \in {"input", "textarea", "select"}
         \/ element.contenteditable = "true"

\* The options of the hook: the timer state and whether it is enabled.
KeyOptions == [timerState : TimerStates, enabled : BOOLEAN]

\* Variant of handleKeyDown that does not look at the focused element.
handleKeyDown_ignoresFocus(key, element, options) ==
    IF ~options.enabled THEN <<>>
    ELSE CASE toLowerCase(key) \in {" ", "spacebar"} ->
                IF options.timerState = "running" THEN <<"onPause">>
                ELSE <<"onStart">>
           [] toLowerCase(key) = "r" -> <<"onReset">>
           [] OTHER -> <<>>

\* handleKeyDown(event) with optionsRef.current = options and
\* document.activeElement = element: the callbacks it calls, in order.
handleKeyDown(key, element, options) ==
    IF ~options.enabled THEN <<>>
    ELSE IF isInputElement(element) THEN <<>>
    ELSE CASE toLowerCase(key) \in {" ", "spacebar"} ->
                IF options.timerState = "running" THEN <<"onPause">>
                ELSE <<"onStart">>
           [] toLowerCase(key) = "r" -> <<"onReset">>
           [] OTHER -> <<>>

\* No keydown yet.
NoKey == [key |-> "none"]

\* ---- the theme ----

Themes == {"light", "dark"}

\* getItem('pomodoro-theme') with no entry.
NoTheme == "null"

\* The 'pomodoro-theme' entries: none, the empty string, the two themes,
\* and text that is no theme.
StoredThemes == {NoTheme, "", "light", "dark", "blue"}

\* prefersDark ? 'dark' : 'light'
systemTheme(prefersDark) == IF prefersDark THEN "dark" ELSE "light"

\* The theme the load effect sets.
loadedTheme(e, prefersDark, getItemThrows) ==
    IF getItemThrows THEN "light"
    ELSE IF e \in Themes THEN e
    ELSE systemTheme(prefersDark)

\* !stored in handleChange: no entry, or the empty string.
noStoredTheme(e) == e = NoTheme \/ e = ""

VARIABLES
    mode, timerState, timeRemaining, sessionCount, \* hook state (latest queued value)
    rendered,      \* the values of the last render, captured by the callbacks
    settings,      \* the settings argument of the last render
    settingsRef,   \* settingsRef.current
    intervalRef,   \* intervalRef.current
    intervals,     \* interval handles that are scheduled (not cleared)
    lastOp,        \* the operation that produced this state
    called,        \* completion callbacks invoked by that operation
    intervalTotal, \* seconds the current interval was last set to (history)
    mounted,       \* the component that owns the hook is mounted
    isLoaded,      \* the settings store has finished its load
    stored,        \* the 'pomodoro-settings' entry of localStorage
    threw,         \* the storage call of the last operation raised an error
    lastSaved,     \* the record of the last write that reached the storage (history)
    lastArg,       \* the record this instance's last saveSettings call was given (history)
    isSettingsOpen,   \* App: the settings panel is open
    formValues,       \* SettingsPanel: the values of the three inputs
    errors,           \* SettingsPanel: the validation message of each input
    durationsChange,  \* what the last operation passed to onDurationsChange (history)
    sessionCountProp, \* SessionCounter: the sessionCount prop of its last render
    displayCount,     \* SessionCounter: displayCount
    counterIsLoaded,  \* SessionCounter: isLoaded
    storedSessions,   \* the 'pomodoro-sessions' entry of localStorage
    sessionComplete,  \* what the last operation passed to onSessionComplete (history)
    maxSeen,          \* largest of the loaded count and the props since the load (history)
    sessionWriteThrew, \* the write of the last sync effect raised an error (history)
    optionsRef,       \* useKeyboardShortcuts: optionsRef.current (timerState, enabled)
    listening,        \* useKeyboardShortcuts: the keydown listener is attached
    keyEvent,         \* the last keydown and the callbacks it called (history)
    theme,            \* useTheme: theme
    themeLoaded,      \* useTheme: isLoaded
    storedTheme,      \* the 'pomodoro-theme' entry of localStorage
    systemDark,       \* matchMedia('(prefers-color-scheme: dark)').matches
    userChose         \* toggleTheme or setTheme has been called (history)

vars == <<mode, timerState, timeRemaining, sessionCount, rendered, settings,
          settingsRef, intervalRef, intervals, lastOp, called, intervalTotal,
          mounted, isLoaded, stored, threw, lastSaved, lastArg,
          isSettingsOpen, formValues, errors, durationsChange,
          sessionCountProp, displayCount, counterIsLoaded, storedSessions,
          sessionComplete, maxSeen, sessionWriteThrew,
          optionsRef, listening, keyEvent,
          theme, themeLoaded, storedTheme, systemDark, userChose>>

\* The state of the session counter.
counterVars == <<sessionCountProp, displayCount, counterIsLoaded, storedSessions,
                 sessionComplete, maxSeen, sessionWriteThrew>>

\* The state of the settings panel.
panelVars == <<isSettingsOpen, formValues, errors, durationsChange>>

\* The state of the countdown.
timerVars == <<mode, timerState, timeRemaining, sessionCount, rendered,
               intervalRef, intervals, intervalTotal>>

\* The state of the keyboard shortcuts.
keyVars == <<optionsRef, listening, keyEvent>>

\* The state of the theme.
themeVars == <<theme, themeLoaded, storedTheme, systemDark, userChose>>

\* What the timer operations leave alone.
appVars == <<mounted, isLoaded, stored, threw, lastSaved, lastArg, panelVars,
            counterVars, keyVars, themeVars>>

\* No saveSettings has written the entry the storage holds.
NotSaved == [saved |-> FALSE]

\* The controls are rendered and the shortcuts enabled once the settings
\* are loaded, for as long as the component is mounted.
uiEnabled == mounted /\ isLoaded

NoCalls == [work |-> 0, break |-> 0]

hookState ==
    [mode |-> mode, timerState |-> timerState,
     timeRemaining |-> timeRemaining, sessionCount |-> sessionCount]

\* A state update is queued and the component has not re-rendered yet.
Dirty == rendered # hookState

\* SettingsPanel as it mounts with the durations r: closed, no edits.
panelMounted(r) ==
    /\ isSettingsOpen = FALSE
    /\ formValues = formOf(r)
    /\ errors = NoErrors
    /\ durationsChange = NoCall

\* SessionCounter before it is mounted, over the entry e.
counterUnmounted(e) ==
    /\ sessionCountProp = 0
    /\ displayCount = 0
    /\ counterIsLoaded = FALSE
    /\ storedSessions = e
    /\ sessionComplete = NoCall
    /\ maxSeen = 0
    /\ sessionWriteThrew = FALSE

\* useKeyboardShortcuts before its first render with enabled options.
keysUnmounted ==
    /\ optionsRef = [timerState |-> "idle", enabled |-> FALSE]
    /\ listening = FALSE
    /\ keyEvent = NoKey

\* useTheme before its load effect, in a browser with no stored theme and
\* a light system preference.
themeUnmounted ==
    /\ theme = "light"
    /\ themeLoaded = FALSE
    /\ storedTheme = NoTheme
    /\ systemDark = FALSE
    /\ userChose = FALSE

\* The panel's open effect after a render with new durations: an open panel
\* takes them as its form values.
durationsEffect ==
    /\ formValues' = IF isSettingsOpen THEN formOf(settings') ELSE formValues
    /\ errors' = IF isSettingsOpen THEN NoErrors ELSE errors
    /\ durationsChange' = NoCall
    /\ UNCHANGED isSettingsOpen

Init ==
    /\ settings \in SettingsInputs
    /\ settingsRef = mergedSettings(settings)
    /\ mode = "work"
    /\ timerState = "idle"
    /\ timeRemaining = getDurationForMode("work", mergedSettings(settings))
    /\ sessionCount = 0
    /\ rendered = [mode |-> "work", timerState |-> "idle",
                   timeRemaining |-> getDurationForMode("work", mergedSettings(settings)),
                   sessionCount |-> 0]
    /\ intervalRef = NoInterval
    /\ intervals = {}
    /\ lastOp = "init"
    /\ called = NoCalls
    /\ intervalTotal = getDurationForMode("work", mergedSettings(settings))
    /\ mounted = TRUE
    /\ isLoaded = TRUE
    /\ stored = NoEntry
    /\ threw = FALSE
    /\ lastSaved = NotSaved
    /\ lastArg = NotSaved
    /\ panelMounted(DEFAULT_DURATIONS)
    /\ counterUnmounted(NoEntry)
    /\ keysUnmounted
    /\ themeUnmounted

\* clearTimerInterval: the set of scheduled handles and the ref afterwards.
clearedIntervals == IF intervalRef # NoInterval THEN intervals \ {intervalRef} ELSE intervals

\* Variant of clearTimerInterval that drops the handle without clearing it.
clearTimerInterval_refOnly ==
    /\ intervals' = intervals
    /\ intervalRef' = NoInterval

clearTimerInterval ==
    /\ intervals' = clearedIntervals
    /\ intervalRef' = NoInterval

\* Variant of getNextMode: the long-break test uses the count before the
\* increment.
getNextMode_beforeIncrement(m, sc, sref) ==
    IF m = "work"
    THEN IF sc % sref.pomodorosBeforeLongBreak = 0
         THEN "longBreak" ELSE "shortBreak"
    ELSE "work"

\* getNextMode, for the mode and sessionCount of a render.
getNextMode(m, sc, sref) ==
    IF m = "work"
    THEN IF (sc + 1) % sref.pomodorosBeforeLongBreak = 0
         THEN "longBreak" ELSE "shortBreak"
    ELSE "work"

\* Variant of transitionToNextMode: the counter is incremented whatever the
\* mode being left.
transitionToNextMode_countsBreaks(r, sref) ==
    /\ sessionCount' = sessionCount + 1
    /\ called' = IF r.mode = "work" THEN [work |-> 1, break |-> 0]
                                    ELSE [work |-> 0, break |-> 1]
    /\ mode' = getNextMode(r.mode, r.sessionCount, sref)
    /\ timeRemaining' = getDurationForMode(getNextMode(r.mode, r.sessionCount, sref), sref)
    /\ timerState' = "idle"

\* Variant of transitionToNextMode: a long break is followed by a short one.
transitionToNextMode_breakAfterBreak(r, sref) ==
    /\ sessionCount' = IF r.mode = "work" THEN sessionCount + 1 ELSE sessionCount
    /\ called' = IF r.mode = "work" THEN [work |-> 1, break |-> 0]
                                    ELSE [work |-> 0, break |-> 1]
    /\ mode' = IF r.mode = "longBreak" THEN "shortBreak"
                ELSE getNextMode(r.mode, r.sessionCount, sref)
    /\ timeRemaining' = getDurationForMode(mode', sref)
    /\ timerState' = "idle"

\* Variant of transitionToNextMode: timeRemaining is loaded with the duration
\* of the mode being left.
transitionToNextMode_oldDuration(r, sref) ==
    /\ sessionCount' = IF r.mode = "work" THEN sessionCount + 1 ELSE sessionCount
    /\ called' = IF r.mode = "work" THEN [work |-> 1, break |-> 0]
                                    ELSE [work |-> 0, break |-> 1]
    /\ mode' = getNextMode(r.mode, r.sessionCount, sref)
    /\ timeRemaining' = getDurationForMode(r.mode, sref)
    /\ timerState' = "idle"

\* Variant of transitionToNextMode: timerState is left as it was.
transitionToNextMode_keepsState(r, sref) ==
    /\ sessionCount' = IF r.mode = "work" THEN sessionCount + 1 ELSE sessionCount
    /\ called' = IF r.mode = "work" THEN [work |-> 1, break |-> 0]
                                    ELSE [work |-> 0, break |-> 1]
    /\ mode' = getNextMode(r.mode, r.sessionCount, sref)
    /\ timeRemaining' = getDurationForMode(getNextMode(r.mode, r.sessionCount, sref), sref)
    /\ timerState' = timerState

\* Variant of transitionToNextMode: both callbacks are invoked when a work
\* interval is left.
transitionToNextMode_bothCallbacks(r, sref) ==
    /\ sessionCount' = IF r.mode = "work" THEN sessionCount + 1 ELSE sessionCount
    /\ called' = IF r.mode = "work" THEN [work |-> 1, break |-> 1]
                                    ELSE [work |-> 0, break |-> 1]
    /\ mode' = getNextMode(r.mode, r.sessionCount, sref)
    /\ timeRemaining' = getDurationForMode(getNextMode(r.mode, r.sessionCount, sref), sref)
    /\ timerState' = "idle"

\* transitionToNextMode called from the callbacks of render r with the
\* settings ref sref: setSessionCount(prev => prev + 1) acts on the latest
\* value, the other updates replace the value; the completion callback of
\* the mode being left is invoked once.
transitionToNextMode(r, sref) ==
    /\ sessionCount' = IF r.mode = "work" THEN sessionCount + 1 ELSE sessionCount
    /\ called' = IF r.mode = "work" THEN [work |-> 1, break |-> 0]
                                    ELSE [work |-> 0, break |-> 1]
    /\ mode' = getNextMode(r.mode, r.sessionCount, sref)
    /\ timeRemaining' = getDurationForMode(getNextMode(r.mode, r.sessionCount, sref), sref)
    /\ timerState' = "idle"

\* The updater the interval callback passes to setTimeRemaining.
tickUpdater(prev) == IF prev <= 1 THEN 0 ELSE prev - 1

\* The handle setInterval returns: one not scheduled at the moment.
newInterval(live) == CHOOSE i \in IntervalIds \ live : \A j \in IntervalIds \ live : i <= j

\* Variant of start without the early return while running.
start_noGuard ==
    /\ uiEnabled
    /\ ~Dirty
    /\ lastOp' = "start"
    /\ called' = NoCalls
    /\ Cardinality(intervals) < MaxIntervals
    /\ rendered.mode = "work" => sessionCount < MaxSessions
    /\ timerState' = "running"
    /\ intervalRef' = newInterval(intervals)
    /\ intervals' = intervals \cup {newInterval(intervals)}
    /\ UNCHANGED <<mode, timeRemaining, sessionCount, rendered, settings,
                   settingsRef, intervalTotal>>
    /\ UNCHANGED appVars

start ==
    /\ uiEnabled
    /\ ~Dirty
    /\ lastOp' = "start"
    /\ called' = NoCalls
    /\ IF rendered.timerState = "running"
       THEN UNCHANGED <<timerState, intervalRef, intervals>>
       ELSE /\ Cardinality(intervals) < MaxIntervals
            /\ rendered.mode = "work" => sessionCount < MaxSessions
            /\ timerState' = "running"
            /\ intervalRef' = newInterval(intervals)
            /\ intervals' = intervals \cup {newInterval(intervals)}
    /\ UNCHANGED <<mode, timeRemaining, sessionCount, rendered, settings,
                   settingsRef, intervalTotal>>
    /\ UNCHANGED appVars

\* Variant of pause that leaves the interval scheduled.
pause_noClear ==
    /\ uiEnabled
    /\ ~Dirty
    /\ lastOp' = "pause"
    /\ called' = NoCalls
    /\ IF rendered.timerState # "running"
       THEN UNCHANGED timerState
       ELSE timerState' = "paused"
    /\ UNCHANGED <<mode, timeRemaining, sessionCount, rendered, settings,
                   settingsRef, intervalTotal, intervalRef, intervals>>
    /\ UNCHANGED appVars

\* Variant of pause without the early return when not running.
pause_noGuard ==
    /\ uiEnabled
    /\ ~Dirty
    /\ lastOp' = "pause"
    /\ called' = NoCalls
    /\ clearTimerInterval
    /\ timerState' = "paused"
    /\ UNCHANGED <<mode, timeRemaining, sessionCount, rendered, settings,
                   settingsRef, intervalTotal>>
    /\ UNCHANGED appVars

pause ==
    /\ uiEnabled
    /\ ~Dirty
    /\ lastOp' = "pause"
    /\ called' = NoCalls
    /\ IF rendered.timerState # "running"
       THEN UNCHANGED <<timerState, intervalRef, intervals>>
       ELSE /\ clearTimerInterval
            /\ timerState' = "paused"
    /\ UNCHANGED <<mode, timeRemaining, sessionCount, rendered, settings,
                   settingsRef, intervalTotal>>
    /\ UNCHANGED appVars

\* Variant of reset that leaves the interval scheduled.
reset_noClear ==
    /\ uiEnabled
    /\ ~Dirty
    /\ lastOp' = "reset"
    /\ called' = NoCalls
    /\ timerState' = "idle"
    /\ timeRemaining' = getDurationForMode(rendered.mode, settingsRef)
    /\ intervalTotal' = getDurationForMode(mode, settingsRef)
    /\ UNCHANGED <<mode, sessionCount, rendered, settings, settingsRef,
                   intervalRef, intervals>>
    /\ UNCHANGED appVars

\* Variant of reset that always loads the work duration.
reset_workDuration ==
    /\ uiEnabled
    /\ ~Dirty
    /\ lastOp' = "reset"
    /\ called' = NoCalls
    /\ clearTimerInterval
    /\ timerState' = "idle"
    /\ timeRemaining' = getDurationForMode("work", settingsRef)
    /\ intervalTotal' = getDurationForMode(mode, settingsRef)
    /\ UNCHANGED <<mode, sessionCount, rendered, settings, settingsRef>>
    /\ UNCHANGED appVars

\* Variant of reset that also goes back to the work mode.
reset_toWork ==
    /\ uiEnabled
    /\ ~Dirty
    /\ lastOp' = "reset"
    /\ called' = NoCalls
    /\ clearTimerInterval
    /\ timerState' = "idle"
    /\ mode' = "work"
    /\ timeRemaining' = getDurationForMode("work", settingsRef)
    /\ intervalTotal' = getDurationForMode("work", settingsRef)
    /\ UNCHANGED <<sessionCount, rendered, settings, settingsRef>>
    /\ UNCHANGED appVars

reset ==
    /\ uiEnabled
    /\ ~Dirty
    /\ lastOp' = "reset"
    /\ called' = NoCalls
    /\ clearTimerInterval
    /\ timerState' = "idle"
    /\ timeRemaining' = getDurationForMode(rendered.mode, settingsRef)
    /\ intervalTotal' = getDurationForMode(mode, settingsRef)
    /\ UNCHANGED <<mode, sessionCount, rendered, settings, settingsRef>>
    /\ UNCHANGED appVars

\* Variant of skip that transitions only when no countdown is in progress.
skip_keepsRunning ==
    /\ uiEnabled
    /\ ~Dirty
    /\ rendered.mode = "work" => sessionCount < MaxSessions
    /\ lastOp' = "skip"
    /\ clearTimerInterval
    /\ IF rendered.timerState = "idle"
       THEN /\ transitionToNextMode(rendered, settingsRef)
            /\ intervalTotal' = getDurationForMode(mode', settingsRef)
       ELSE /\ called' = NoCalls
            /\ timerState' = "idle"
            /\ UNCHANGED <<mode, timeRemaining, sessionCount, intervalTotal>>
    /\ UNCHANGED <<rendered, settings, settingsRef>>
    /\ UNCHANGED appVars

\* Variant of skip that leaves the interval scheduled.
skip_noClear ==
    /\ uiEnabled
    /\ ~Dirty
    /\ rendered.mode = "work" => sessionCount < MaxSessions
    /\ lastOp' = "skip"
    /\ transitionToNextMode(rendered, settingsRef)
    /\ intervalTotal' = getDurationForMode(mode', settingsRef)
    /\ UNCHANGED <<rendered, settings, settingsRef, intervalRef, intervals>>
    /\ UNCHANGED appVars

skip ==
    /\ uiEnabled
    /\ ~Dirty
    /\ rendered.mode = "work" => sessionCount < MaxSessions
    /\ lastOp' = "skip"
    /\ clearTimerInterval
    /\ transitionToNextMode(rendered, settingsRef)
    /\ intervalTotal' = getDurationForMode(mode', settingsRef)
    /\ UNCHANGED <<rendered, settings, settingsRef>>
    /\ UNCHANGED appVars

\* One firing of a scheduled interval: the setTimeRemaining updater.
tick ==
    /\ ~Dirty
    /\ \E i \in intervals :
        /\ lastOp' = "tick"
        /\ called' = NoCalls
        /\ timeRemaining' = tickUpdater(timeRemaining)
        /\ IF timeRemaining <= 1
           THEN clearTimerInterval
           ELSE UNCHANGED <<intervalRef, intervals>>
    /\ UNCHANGED <<mode, timerState, sessionCount, rendered, settings,
                   settingsRef, intervalTotal>>
    /\ UNCHANGED appVars

\* Variant of the sync effect that follows the prop in both directions.
syncEffect_follows(s, d) ==
    IF s # d
    THEN /\ displayCount' = s
         /\ \E setItemThrows \in BOOLEAN :
                /\ storedSessions' = IF setItemThrows THEN storedSessions ELSE toString(s)
                /\ sessionWriteThrew' = setItemThrows
         /\ sessionComplete' = s
    ELSE /\ displayCount' = d
         /\ sessionComplete' = NoCall
         /\ sessionWriteThrew' = FALSE
         /\ UNCHANGED storedSessions

\* SessionCounter's sync effect after a render with the prop s and the
\* displayCount d, once loaded: a larger prop is displayed, written to
\* the storage (an error is ignored) and passed to onSessionComplete.
syncEffect(s, d) ==
    IF s > d
    THEN /\ displayCount' = s
         /\ \E setItemThrows \in BOOLEAN :
                /\ storedSessions' = IF setItemThrows THEN storedSessions ELSE toString(s)
                /\ sessionWriteThrew' = setItemThrows
         /\ sessionComplete' = s
    ELSE /\ displayCount' = d
         /\ sessionComplete' = NoCall
         /\ sessionWriteThrew' = FALSE
         /\ UNCHANGED storedSessions

\* A render of App passes the prop s to SessionCounter; once mounted and
\* loaded, its sync effect runs.
counterCommit(s) ==
    /\ sessionCountProp' = s
    /\ IF counterIsLoaded
       THEN /\ syncEffect(s, displayCount)
            /\ maxSeen' = IF s > maxSeen THEN s ELSE maxSeen
            /\ UNCHANGED counterIsLoaded
       ELSE UNCHANGED <<displayCount, counterIsLoaded, storedSessions,
                        sessionComplete, maxSeen, sessionWriteThrew>>

\* SessionCounter mounts: the load effect, then the sync effect of the
\* render that follows it.
counterMount ==
    /\ counterIsLoaded' = TRUE
    /\ \E getItemThrows \in BOOLEAN :
        /\ syncEffect(sessionCountProp, loadedCount(storedSessions, getItemThrows))
        /\ maxSeen' =
             IF sessionCountProp > loadedCount(storedSessions, getItemThrows)
             THEN sessionCountProp
             ELSE loadedCount(storedSessions, getItemThrows)

\* What a render of the timer leaves alone besides the session counter.
shellVars == <<mounted, isLoaded, stored, threw, lastSaved, lastArg, panelVars,
              keyVars, themeVars>>

\* Variant of render without the completion effect.
render_noEffect ==
    /\ mounted
    /\ Dirty
    /\ rendered' = hookState
    /\ lastOp' = "render"
    /\ called' = NoCalls
    /\ UNCHANGED <<mode, timerState, timeRemaining, sessionCount, intervalTotal,
                   settings, settingsRef, intervalRef, intervals>>
    /\ counterCommit(sessionCount)
    /\ UNCHANGED shellVars

\* Re-render after a state update, followed by the effects of that render:
\* the completion effect runs with the callbacks of the new render.
render ==
    /\ mounted
    /\ Dirty
    /\ rendered' = hookState
    /\ IF timeRemaining = 0 /\ timerState = "running"
       THEN /\ lastOp' = "complete"
            /\ transitionToNextMode(hookState, settingsRef)
            /\ intervalTotal' = getDurationForMode(mode', settingsRef)
       ELSE /\ lastOp' = "render"
            /\ called' = NoCalls
            /\ UNCHANGED <<mode, timerState, timeRemaining, sessionCount, intervalTotal>>
    /\ UNCHANGED <<settings, settingsRef, intervalRef, intervals>>
    /\ counterCommit(sessionCount)
    /\ UNCHANGED shellVars

\* Variant of setSettings without the settingsRef effect.
setSettings_noRef ==
    /\ uiEnabled
    /\ ~Dirty
    /\ \E s \in SettingsInputs :
        /\ s # settings
        /\ settings' = s
    /\ lastOp' = "settings"
    /\ called' = NoCalls
    /\ UNCHANGED <<mode, timerState, timeRemaining, sessionCount, rendered,
                   intervalRef, intervals, intervalTotal, settingsRef>>
    /\ UNCHANGED appVars

\* The caller re-renders the hook with another settings record; the
\* settingsRef effect of that render stores the merged record.
setSettings ==
    /\ uiEnabled
    /\ ~Dirty
    /\ \E s \in SettingsInputs :
        /\ s # settings
        /\ settings' = s
        /\ settingsRef' = mergedSettings(s)
    /\ lastOp' = "settings"
    /\ called' = NoCalls
    /\ UNCHANGED <<mode, timerState, timeRemaining, sessionCount, rendered,
                   intervalRef, intervals, intervalTotal>>
    /\ UNCHANGED appVars

\* Variant of the unmount cleanup that does not clear the interval.
unmount_noClear ==
    /\ mounted
    /\ mounted' = FALSE
    /\ lastOp' = "unmount"
    /\ called' = NoCalls
    /\ UNCHANGED <<mode, timerState, timeRemaining, sessionCount, rendered,
                   settings, settingsRef, intervalRef, intervals, intervalTotal,
                   isLoaded, stored, threw, lastSaved, lastArg, panelVars, counterVars, keyVars, themeVars>>

\* The component unmounts: the cleanup of the last effect runs.
unmount ==
    /\ mounted
    /\ mounted' = FALSE
    /\ clearTimerInterval
    /\ lastOp' = "unmount"
    /\ called' = NoCalls
    /\ UNCHANGED <<mode, timerState, timeRemaining, sessionCount, rendered,
                   settings, settingsRef, intervalTotal, isLoaded, stored,
                   threw, lastSaved, lastArg, panelVars, counterVars, keyVars, themeVars>>

Next ==
    start \/ pause \/ reset \/ skip \/ tick \/ render \/ setSettings \/ unmount

Spec == Init /\ [][Next]_vars

\* ------------------------------------------------ the composed application
\* App's first render: the store hands out DEFAULT_DURATIONS and the timer
\* is constructed with them; the load effect has not run.
InitApp ==
    /\ stored \in StoredInputs
    /\ threw = FALSE
    /\ lastSaved = NotSaved
    /\ lastArg = NotSaved
    /\ panelMounted(DEFAULT_DURATIONS)
    /\ counterUnmounted(NoEntry)
    /\ keysUnmounted
    /\ themeUnmounted
    /\ isLoaded = FALSE
    /\ mounted = TRUE
    /\ settings = DEFAULT_DURATIONS
    /\ settingsRef = mergedSettings(DEFAULT_DURATIONS)
    /\ mode = "work"
    /\ timerState = "idle"
    /\ timeRemaining = getDurationForMode("work", mergedSettings(DEFAULT_DURATIONS))
    /\ sessionCount = 0
    /\ rendered = [mode |-> "work", timerState |-> "idle",
                   timeRemaining |-> getDurationForMode("work", mergedSettings(DEFAULT_DURATIONS)),
                   sessionCount |-> 0]
    /\ intervalRef = NoInterval
    /\ intervals = {}
    /\ lastOp = "init"
    /\ called = NoCalls
    /\ intervalTotal = getDurationForMode("work", mergedSettings(DEFAULT_DURATIONS))

\* What the load effect passes to setSettings: nothing (the record stays
\* cur) when getItem throws, the entry is null or '', JSON.parse throws or
\* sanitizeDurations returns null.
loadedRecord(e, getItemThrows, cur) ==
    IF getItemThrows \/ ~truthy(e) THEN cur
    ELSE IF parseThrows(e) THEN cur
    ELSE IF sanitizeDurations(JSONparse(e)) = JsonNull THEN cur
    ELSE sanitizeDurations(JSONparse(e))

\* Variant of the load effect without the try/catch: an error leaves the
\* effect before setIsLoaded(true).
loadSettings_noCatch ==
    /\ mounted
    /\ ~isLoaded
    /\ \E getItemThrows \in BOOLEAN :
        /\ settings' = loadedRecord(stored, getItemThrows, settings)
        /\ threw' = (getItemThrows \/ (truthy(stored) /\ parseThrows(stored)))
    /\ settingsRef' = mergedSettings(settings')
    /\ isLoaded' = ~threw'
    /\ lastOp' = "load"
    /\ called' = NoCalls
    /\ UNCHANGED <<mode, timerState, timeRemaining, sessionCount, rendered,
                   intervalRef, intervals, intervalTotal, mounted, stored,
                   lastSaved, lastArg, panelVars, counterVars, keyVars, themeVars>>

\* The load effect of the settings store, and the re-render of App with the
\* loaded record: the timer's settingsRef effect stores it.
loadEffect ==
    /\ mounted
    /\ ~isLoaded
    /\ \E getItemThrows \in BOOLEAN :
        /\ settings' = loadedRecord(stored, getItemThrows, settings)
        /\ threw' = (getItemThrows \/ (truthy(stored) /\ parseThrows(stored)))
    /\ settingsRef' = mergedSettings(settings')
    /\ isLoaded' = TRUE
    /\ lastOp' = "load"
    /\ called' = NoCalls
    /\ UNCHANGED <<mode, timerState, timeRemaining, sessionCount, rendered,
                   intervalRef, intervals, intervalTotal, mounted, stored,
                   lastSaved, lastArg, keyVars, themeVars>>

\* The load of the settings store on its own: the components App renders
\* once isLoaded is true are left aside.
loadSettings == loadEffect /\ UNCHANGED <<panelVars, counterVars>>

\* The records a caller can hand to saveSettings: any three numbers.
SaveInputs ==
    [workDuration : FieldNumbers, shortBreakDuration : FieldNumbers,
     longBreakDuration : FieldNumbers, pomodorosBeforeLongBreak : {Absent}]

\* Variant that writes first: a storage error skips setSettings.
saveSettings_writeFirst ==
    /\ mounted
    /\ isLoaded
    /\ \E newSettings \in SaveInputs, setItemThrows \in BOOLEAN :
        /\ settings' = IF setItemThrows THEN settings ELSE newSettings
        /\ stored' = IF setItemThrows THEN stored ELSE JSONstringify(newSettings)
        /\ lastSaved' = IF setItemThrows THEN lastSaved ELSE newSettings
        /\ threw' = setItemThrows
        /\ lastArg' = newSettings
    /\ settingsRef' = mergedSettings(settings')
    /\ lastOp' = "saveSettings"
    /\ called' = NoCalls
    /\ durationsEffect
    /\ UNCHANGED <<timerVars, counterVars, keyVars, themeVars, mounted, isLoaded>>

\* The body of saveSettings: setSettings first, then the write, whose error
\* is caught; the consumer re-renders with the new record.
storeSave(newSettings, setItemThrows) ==
    /\ settings' = newSettings
    /\ stored' = IF setItemThrows THEN stored ELSE JSONstringify(newSettings)
    /\ lastSaved' = IF setItemThrows THEN lastSaved ELSE newSettings
    /\ threw' = setItemThrows
    /\ lastArg' = newSettings
    /\ settingsRef' = mergedSettings(settings')

\* saveSettings(newSettings), called on the store with any record.
saveSettings ==
    /\ mounted
    /\ isLoaded
    /\ \E newSettings \in SaveInputs, setItemThrows \in BOOLEAN :
        storeSave(newSettings, setItemThrows)
    /\ lastOp' = "saveSettings"
    /\ called' = NoCalls
    /\ durationsEffect
    /\ UNCHANGED <<timerVars, counterVars, keyVars, themeVars, mounted, isLoaded>>

\* Variant that resets the state and leaves the entry in the storage.
resetSettings_keepsEntry ==
    /\ mounted
    /\ isLoaded
    /\ \E removeItemThrows \in BOOLEAN :
        /\ settings' = DEFAULT_DURATIONS
        /\ stored' = stored
        /\ lastSaved' = IF removeItemThrows THEN lastSaved ELSE NotSaved
        /\ threw' = removeItemThrows
    /\ settingsRef' = mergedSettings(settings')
    /\ lastOp' = "resetSettings"
    /\ called' = NoCalls
    /\ durationsEffect
    /\ UNCHANGED <<timerVars, counterVars, keyVars, themeVars, mounted, isLoaded, lastArg>>

\* resetSettings(): setSettings(DEFAULT_DURATIONS) first, then removeItem,
\* whose error is caught.
resetSettings ==
    /\ mounted
    /\ isLoaded
    /\ \E removeItemThrows \in BOOLEAN :
        /\ settings' = DEFAULT_DURATIONS
        /\ stored' = IF removeItemThrows THEN stored ELSE NoEntry
        /\ lastSaved' = IF removeItemThrows THEN lastSaved ELSE NotSaved
        /\ threw' = removeItemThrows
    /\ settingsRef' = mergedSettings(settings')
    /\ lastOp' = "resetSettings"
    /\ called' = NoCalls
    /\ durationsEffect
    /\ UNCHANGED <<timerVars, counterVars, keyVars, themeVars, mounted, isLoaded, lastArg>>

\* A new store instance over the same storage (the page is loaded again):
\* the first render of a fresh application.
newInstance ==
    /\ isLoaded
    /\ isLoaded' = FALSE
    /\ mounted' = TRUE
    /\ settings' = DEFAULT_DURATIONS
    /\ settingsRef' = mergedSettings(DEFAULT_DURATIONS)
    /\ mode' = "work"
    /\ timerState' = "idle"
    /\ timeRemaining' = getDurationForMode("work", mergedSettings(DEFAULT_DURATIONS))
    /\ sessionCount' = 0
    /\ rendered' = [mode |-> "work", timerState |-> "idle",
                    timeRemaining |-> getDurationForMode("work", mergedSettings(DEFAULT_DURATIONS)),
                    sessionCount |-> 0]
    /\ intervalRef' = NoInterval
    /\ intervals' = {}
    /\ intervalTotal' = getDurationForMode("work", mergedSettings(DEFAULT_DURATIONS))
    /\ lastOp' = "init"
    /\ called' = NoCalls
    /\ threw' = FALSE
    /\ lastArg' = NotSaved
    /\ isSettingsOpen' = FALSE
    /\ formValues' = formOf(DEFAULT_DURATIONS)
    /\ errors' = NoErrors
    /\ durationsChange' = NoCall
    /\ sessionCountProp' = 0
    /\ displayCount' = 0
    /\ counterIsLoaded' = FALSE
    /\ sessionComplete' = NoCall
    /\ maxSeen' = 0
    /\ sessionWriteThrew' = FALSE
    /\ UNCHANGED <<stored, lastSaved, storedSessions, keyVars, themeVars>>

\* App wires start, pause and reset to the controls and the shortcuts.
NextApp == loadSettings \/ start \/ pause \/ reset \/ tick \/ render

SpecApp == InitApp /\ [][NextApp]_vars

\* -------------------------------------------------- the settings store
\* The store over any entry the storage can hold, with its three
\* operations; the timer of the application is not operated.
InitStore ==
    /\ stored \in StoredEntries
    /\ threw = FALSE
    /\ lastSaved = NotSaved
    /\ lastArg = NotSaved
    /\ panelMounted(DEFAULT_DURATIONS)
    /\ counterUnmounted(NoEntry)
    /\ keysUnmounted
    /\ themeUnmounted
    /\ isLoaded = FALSE
    /\ mounted = TRUE
    /\ settings = DEFAULT_DURATIONS
    /\ settingsRef = mergedSettings(DEFAULT_DURATIONS)
    /\ mode = "work"
    /\ timerState = "idle"
    /\ timeRemaining = getDurationForMode("work", mergedSettings(DEFAULT_DURATIONS))
    /\ sessionCount = 0
    /\ rendered = [mode |-> "work", timerState |-> "idle",
                   timeRemaining |-> getDurationForMode("work", mergedSettings(DEFAULT_DURATIONS)),
                   sessionCount |-> 0]
    /\ intervalRef = NoInterval
    /\ intervals = {}
    /\ lastOp = "init"
    /\ called = NoCalls
    /\ intervalTotal = getDurationForMode("work", mergedSettings(DEFAULT_DURATIONS))

NextStore == loadSettings \/ saveSettings \/ resetSettings \/ newInstance

SpecStore == InitStore /\ [][NextStore]_vars

\* ---------------------------------------------------- the settings form

\* Variant of the open effect that keeps the form as it was left.
openSettings_keepsForm ==
    /\ uiEnabled
    /\ ~isSettingsOpen
    /\ isSettingsOpen' = TRUE
    /\ durationsChange' = NoCall
    /\ lastOp' = "openSettings"
    /\ called' = NoCalls
    /\ UNCHANGED <<timerVars, counterVars, keyVars, themeVars, settings, settingsRef, mounted, isLoaded, stored,
                   threw, lastSaved, lastArg, formValues, errors>>

\* The Settings button: the panel opens and its open effect loads the
\* store's record into the form.
openSettings ==
    /\ uiEnabled
    /\ ~isSettingsOpen
    /\ isSettingsOpen' = TRUE
    /\ formValues' = formOf(settings)
    /\ errors' = NoErrors
    /\ durationsChange' = NoCall
    /\ lastOp' = "openSettings"
    /\ called' = NoCalls
    /\ UNCHANGED <<timerVars, counterVars, keyVars, themeVars, settings, settingsRef, mounted, isLoaded, stored,
                   threw, lastSaved, lastArg>>

\* onClose: Cancel, the close button, the backdrop or Escape.
closeSettings ==
    /\ uiEnabled
    /\ isSettingsOpen
    /\ isSettingsOpen' = FALSE
    /\ durationsChange' = NoCall
    /\ lastOp' = "closeSettings"
    /\ called' = NoCalls
    /\ UNCHANGED <<timerVars, counterVars, keyVars, themeVars, settings, settingsRef, mounted, isLoaded, stored,
                   threw, lastSaved, lastArg, formValues, errors>>

\* handleInputChange(field, value)
handleInputChange ==
    /\ uiEnabled
    /\ isSettingsOpen
    /\ \E field \in DurationFields, value \in InputTexts :
        LET numValue == parseInt(value)
        IN /\ formValues' = [formValues EXCEPT
                 ![field] = IF numValue = NaN THEN EmptyString ELSE numValue]
           /\ errors' = [errors EXCEPT ![field] = validateValue(numValue)]
    /\ durationsChange' = NoCall
    /\ lastOp' = "handleInputChange"
    /\ called' = NoCalls
    /\ UNCHANGED <<timerVars, counterVars, keyVars, themeVars, settings, settingsRef, mounted, isLoaded, stored,
                   threw, lastSaved, lastArg, isSettingsOpen>>

\* handleResetDefaults
handleResetDefaults ==
    /\ uiEnabled
    /\ isSettingsOpen
    /\ formValues' = formOf(DEFAULT_DURATIONS)
    /\ errors' = NoErrors
    /\ durationsChange' = NoCall
    /\ lastOp' = "handleResetDefaults"
    /\ called' = NoCalls
    /\ UNCHANGED <<timerVars, counterVars, keyVars, themeVars, settings, settingsRef, mounted, isLoaded, stored,
                   threw, lastSaved, lastArg, isSettingsOpen>>

\* Variant of handleSubmit without the validation pass.
handleSubmit_noValidation ==
    /\ uiEnabled
    /\ isSettingsOpen
    /\ durationsChange' = submittedDurations(formValues)
    /\ \E setItemThrows \in BOOLEAN :
           storeSave(submittedDurations(formValues), setItemThrows)
    /\ isSettingsOpen' = FALSE
    /\ UNCHANGED <<formValues, errors>>
    /\ lastOp' = "handleSubmit"
    /\ called' = NoCalls
    /\ UNCHANGED <<timerVars, counterVars, keyVars, themeVars, mounted, isLoaded>>

\* handleSubmit: every form value is validated; with an error the messages
\* are shown and nothing else happens, otherwise onDurationsChange (App:
\* saveSettings) gets the values and onClose closes the panel.
handleSubmit ==
    /\ uiEnabled
    /\ isSettingsOpen
    /\ LET newErrors == [f \in DurationFields |-> validateValue(formValues[f])]
           hasErrors == \E f \in DurationFields : newErrors[f] # NoError
       IN IF hasErrors
          THEN /\ errors' = newErrors
               /\ durationsChange' = NoCall
               /\ UNCHANGED <<settings, settingsRef, stored, threw, lastSaved,
                              lastArg, isSettingsOpen, formValues>>
          ELSE /\ durationsChange' = submittedDurations(formValues)
               /\ \E setItemThrows \in BOOLEAN :
                      storeSave(submittedDurations(formValues), setItemThrows)
               /\ isSettingsOpen' = FALSE
               /\ UNCHANGED <<formValues, errors>>
    /\ lastOp' = "handleSubmit"
    /\ called' = NoCalls
    /\ UNCHANGED <<timerVars, counterVars, keyVars, themeVars, mounted, isLoaded>>

\* The load of the settings store in App: the re-render with isLoaded true
\* mounts the settings panel, closed, with the loaded record as its form
\* values, and the session counter, whose prop is the engine's sessionCount.
loadApp ==
    /\ loadEffect
    /\ formValues' = formOf(settings')
    /\ errors' = NoErrors
    /\ durationsChange' = NoCall
    /\ counterMount
    /\ UNCHANGED <<isSettingsOpen, sessionCountProp>>

\* The application from its first render, with the settings form operated.
NextPanel ==
    \/ loadApp \/ openSettings \/ closeSettings \/ handleInputChange
    \/ handleResetDefaults \/ handleSubmit

SpecPanel == InitApp /\ [][NextPanel]_vars

\* ------------------------------------------------ the session counter
\* The component mounted on its own, with the prop it is given.
mountCounter ==
    /\ uiEnabled
    /\ ~counterIsLoaded
    /\ counterMount
    /\ lastOp' = "mountCounter"
    /\ called' = NoCalls
    /\ UNCHANGED <<timerVars, settings, settingsRef, sessionCountProp, shellVars>>

\* SessionCounter rendered again with a sessionCount prop set by hand.
rerenderCounter ==
    /\ uiEnabled
    /\ counterIsLoaded
    /\ \E s \in 0..MaxCount : counterCommit(s)
    /\ lastOp' = "rerenderCounter"
    /\ called' = NoCalls
    /\ UNCHANGED <<timerVars, settings, settingsRef, shellVars>>

\* The component alone, over any stored count: mounted with any prop and
\* rendered again with any prop.
InitCounter ==
    /\ stored = NoEntry
    /\ threw = FALSE
    /\ lastSaved = NotSaved
    /\ lastArg = NotSaved
    /\ panelMounted(DEFAULT_DURATIONS)
    /\ sessionCountProp \in 0..MaxCount
    /\ displayCount = 0
    /\ counterIsLoaded = FALSE
    /\ storedSessions \in StoredSessions
    /\ sessionComplete = NoCall
    /\ maxSeen = 0
    /\ sessionWriteThrew = FALSE
    /\ keysUnmounted
    /\ themeUnmounted
    /\ isLoaded = TRUE
    /\ mounted = TRUE
    /\ settings = DEFAULT_DURATIONS
    /\ settingsRef = mergedSettings(DEFAULT_DURATIONS)
    /\ mode = "work"
    /\ timerState = "idle"
    /\ timeRemaining = getDurationForMode("work", mergedSettings(DEFAULT_DURATIONS))
    /\ sessionCount = 0
    /\ rendered = [mode |-> "work", timerState |-> "idle",
                   timeRemaining |-> getDurationForMode("work", mergedSettings(DEFAULT_DURATIONS)),
                   sessionCount |-> 0]
    /\ intervalRef = NoInterval
    /\ intervals = {}
    /\ lastOp = "init"
    /\ called = NoCalls
    /\ intervalTotal = getDurationForMode("work", mergedSettings(DEFAULT_DURATIONS))

NextCounter == mountCounter \/ rerenderCounter

SpecCounter == InitCounter /\ [][NextCounter]_vars



\* The application from its first render over a stored record of one-minute
\* durations and any stored count (a page load): sessions are completed by
\* the countdown.
InitSessions ==
    /\ stored = JSONstringify([workDuration |-> MinDuration,
                               shortBreakDuration |-> MinDuration,
                               longBreakDuration |-> MinDuration])
    /\ threw = FALSE
    /\ lastSaved = NotSaved
    /\ lastArg = NotSaved
    /\ panelMounted(DEFAULT_DURATIONS)
    /\ sessionCountProp = 0
    /\ displayCount = 0
    /\ counterIsLoaded = FALSE
    /\ storedSessions \in StoredSessions
    /\ sessionComplete = NoCall
    /\ maxSeen = 0
    /\ sessionWriteThrew = FALSE
    /\ keysUnmounted
    /\ themeUnmounted
    /\ isLoaded = FALSE
    /\ mounted = TRUE
    /\ settings = DEFAULT_DURATIONS
    /\ settingsRef = mergedSettings(DEFAULT_DURATIONS)
    /\ mode = "work"
    /\ timerState = "idle"
    /\ timeRemaining = getDurationForMode("work", mergedSettings(DEFAULT_DURATIONS))
    /\ sessionCount = 0
    /\ rendered = [mode |-> "work", timerState |-> "idle",
                   timeRemaining |-> getDurationForMode("work", mergedSettings(DEFAULT_DURATIONS)),
                   sessionCount |-> 0]
    /\ intervalRef = NoInterval
    /\ intervals = {}
    /\ lastOp = "init"
    /\ called = NoCalls
    /\ intervalTotal = getDurationForMode("work", mergedSettings(DEFAULT_DURATIONS))

NextSessions == loadApp \/ reset \/ start \/ tick \/ render

SpecSessions == InitSessions /\ [][NextSessions]_vars

\* ---- the keyboard shortcuts on their own ----

\* The hook is rendered with new options: the effects store them in
\* optionsRef and attach the keydown listener iff enabled.
rerenderKeys ==
    /\ mounted
    /\ \E options \in KeyOptions :
         /\ optionsRef' = options
         /\ listening' = options.enabled
    /\ lastOp' = "rerenderKeys"
    /\ called' = NoCalls
    /\ UNCHANGED <<timerVars, counterVars, settings, settingsRef, mounted,
                   isLoaded, stored, threw, lastSaved, lastArg, panelVars,
                   keyEvent, themeVars>>

\* A keydown event reaches the window: the listener, if attached, runs
\* handleKeyDown.
keydown ==
    /\ mounted
    /\ \E key \in Keys, element \in FocusElements :
         keyEvent' = [key |-> key, focus |-> element, options |-> optionsRef,
                      callbacks |-> IF listening
                                    THEN handleKeyDown(key, element, optionsRef)
                                    ELSE <<>>]
    /\ lastOp' = "keydown"
    /\ called' = NoCalls
    /\ UNCHANGED <<timerVars, counterVars, settings, settingsRef, mounted,
                   isLoaded, stored, threw, lastSaved, lastArg, panelVars,
                   optionsRef, listening, themeVars>>

\* The hook rendered on its own with any options (as its tests do).
InitKeys ==
    /\ optionsRef \in KeyOptions
    /\ listening = optionsRef.enabled
    /\ keyEvent = NoKey
    /\ themeUnmounted
    /\ stored = NoEntry
    /\ threw = FALSE
    /\ lastSaved = NotSaved
    /\ lastArg = NotSaved
    /\ panelMounted(DEFAULT_DURATIONS)
    /\ counterUnmounted(NoEntry)
    /\ isLoaded = FALSE
    /\ mounted = TRUE
    /\ settings = DEFAULT_DURATIONS
    /\ settingsRef = mergedSettings(DEFAULT_DURATIONS)
    /\ mode = "work"
    /\ timerState = "idle"
    /\ timeRemaining = getDurationForMode("work", mergedSettings(DEFAULT_DURATIONS))
    /\ sessionCount = 0
    /\ rendered = [mode |-> "work", timerState |-> "idle",
                   timeRemaining |-> getDurationForMode("work", mergedSettings(DEFAULT_DURATIONS)),
                   sessionCount |-> 0]
    /\ intervalRef = NoInterval
    /\ intervals = {}
    /\ lastOp = "init"
    /\ called = NoCalls
    /\ intervalTotal = getDurationForMode("work", mergedSettings(DEFAULT_DURATIONS))

NextKeys == rerenderKeys \/ keydown

SpecKeys == InitKeys /\ [][NextKeys]_vars

\* ------------------------------------------------------- the theme
\* The persist effect after a render in which theme or isLoaded changed:
\* the theme is written to the storage, an error is ignored.
persistEffect(changed) ==
    \E setItemThrows \in BOOLEAN :
        storedTheme' = IF changed /\ ~setItemThrows THEN theme' ELSE storedTheme

\* The load effect of useTheme and the re-render that follows it.
loadTheme ==
    /\ mounted
    /\ ~themeLoaded
    /\ \E getItemThrows \in BOOLEAN :
         theme' = loadedTheme(storedTheme, systemDark, getItemThrows)
    /\ themeLoaded' = TRUE
    /\ persistEffect(TRUE)
    /\ lastOp' = "loadTheme"
    /\ called' = NoCalls
    /\ UNCHANGED <<systemDark, userChose>>
    /\ UNCHANGED <<timerVars, counterVars, keyVars, settings, settingsRef,
                   mounted, isLoaded, stored, threw, lastSaved, lastArg,
                   panelVars>>

\* toggleTheme()
toggleTheme ==
    /\ mounted
    /\ themeLoaded
    /\ theme' = IF theme = "light" THEN "dark" ELSE "light"
    /\ persistEffect(TRUE)
    /\ userChose' = TRUE
    /\ lastOp' = "toggleTheme"
    /\ called' = NoCalls
    /\ UNCHANGED <<themeLoaded, systemDark>>
    /\ UNCHANGED <<timerVars, counterVars, keyVars, settings, settingsRef,
                   mounted, isLoaded, stored, threw, lastSaved, lastArg,
                   panelVars>>

\* setTheme(newTheme)
setTheme ==
    /\ mounted
    /\ themeLoaded
    /\ \E newTheme \in Themes : theme' = newTheme
    /\ persistEffect(theme' # theme)
    /\ userChose' = TRUE
    /\ lastOp' = "setTheme"
    /\ called' = NoCalls
    /\ UNCHANGED <<themeLoaded, systemDark>>
    /\ UNCHANGED <<timerVars, counterVars, keyVars, settings, settingsRef,
                   mounted, isLoaded, stored, threw, lastSaved, lastArg,
                   panelVars>>

\* The system colour scheme changes: handleChange reads the storage and
\* follows the system only if it holds no theme.
systemChange ==
    /\ mounted
    /\ themeLoaded
    /\ systemDark' = ~systemDark
    /\ \E getItemThrows \in BOOLEAN :
         theme' = IF ~getItemThrows /\ noStoredTheme(storedTheme)
                  THEN systemTheme(systemDark')
                  ELSE theme
    /\ persistEffect(theme' # theme)
    /\ lastOp' = "systemChange"
    /\ called' = NoCalls
    /\ UNCHANGED <<themeLoaded, userChose>>
    /\ UNCHANGED <<timerVars, counterVars, keyVars, settings, settingsRef,
                   mounted, isLoaded, stored, threw, lastSaved, lastArg,
                   panelVars>>

\* useTheme mounted in a browser with any stored theme and system
\* preference; a stored theme is the choice of an earlier visit.
InitTheme ==
    /\ theme = "light"
    /\ themeLoaded = FALSE
    /\ storedTheme \in StoredThemes
    /\ systemDark \in BOOLEAN
    /\ userChose = (storedTheme \in Themes)
    /\ keysUnmounted
    /\ stored = NoEntry
    /\ threw = FALSE
    /\ lastSaved = NotSaved
    /\ lastArg = NotSaved
    /\ panelMounted(DEFAULT_DURATIONS)
    /\ counterUnmounted(NoEntry)
    /\ isLoaded = FALSE
    /\ mounted = TRUE
    /\ settings = DEFAULT_DURATIONS
    /\ settingsRef = mergedSettings(DEFAULT_DURATIONS)
    /\ mode = "work"
    /\ timerState = "idle"
    /\ timeRemaining = getDurationForMode("work", mergedSettings(DEFAULT_DURATIONS))
    /\ sessionCount = 0
    /\ rendered = [mode |-> "work", timerState |-> "idle",
                   timeRemaining |-> getDurationForMode("work", mergedSettings(DEFAULT_DURATIONS)),
                   sessionCount |-> 0]
    /\ intervalRef = NoInterval
    /\ intervals = {}
    /\ lastOp = "init"
    /\ called = NoCalls
    /\ intervalTotal = getDurationForMode("work", mergedSettings(DEFAULT_DURATIONS))

NextTheme == loadTheme \/ toggleTheme \/ setTheme \/ systemChange

SpecTheme == InitTheme /\ [][NextTheme]_vars

\* ------------------------------------- construction with omitted fields
\* Settings arguments in which any of the three durations may be left out.
PartialSettingsInputs ==
    [workDuration : Durations \cup {Absent},
     shortBreakDuration : Durations \cup {Absent},
     longBreakDuration : Durations \cup {Absent},
     pomodorosBeforeLongBreak : {Absent}]

InitPartial ==
    /\ settings \in PartialSettingsInputs
    /\ settingsRef = mergedSettings(settings)
    /\ mode = "work"
    /\ timerState = "idle"
    /\ timeRemaining = getDurationForMode("work", mergedSettings(settings))
    /\ sessionCount = 0
    /\ rendered = [mode |-> "work", timerState |-> "idle",
                   timeRemaining |-> getDurationForMode("work", mergedSettings(settings)),
                   sessionCount |-> 0]
    /\ intervalRef = NoInterval
    /\ intervals = {}
    /\ lastOp = "init"
    /\ called = NoCalls
    /\ intervalTotal = getDurationForMode("work", mergedSettings(settings))
    /\ mounted = TRUE
    /\ isLoaded = TRUE
    /\ stored = NoEntry
    /\ threw = FALSE
    /\ lastSaved = NotSaved
    /\ lastArg = NotSaved
    /\ panelMounted(DEFAULT_DURATIONS)
    /\ counterUnmounted(NoEntry)
    /\ keysUnmounted
    /\ themeUnmounted

\* The operations that load a duration, without the countdown.
NextPartial == start \/ pause \/ reset \/ skip \/ render

SpecPartial == InitPartial /\ [][NextPartial]_vars

\* ------------------------------------------------ an undisturbed countdown
\* No pause(), reset() or skip(); the interval fires for as long as it is
\* scheduled and React re-renders after every state update.
NextLive == start \/ tick \/ render \/ setSettings

SpecLive == Init /\ [][NextLive]_vars /\ WF_vars(tick) /\ WF_vars(render)

\* ------------------------------------- calls from a stale rendered snapshot
\* start() called again right after start(), before the component has
\* re-rendered (two calls in one event handler): the callback is the one
\* of the last render and still sees its timerState.
startAgain ==
    /\ uiEnabled
    /\ Dirty
    /\ lastOp = "start"
    /\ lastOp' = "start"
    /\ called' = NoCalls
    /\ IF rendered.timerState = "running"
       THEN UNCHANGED <<timerState, intervalRef, intervals>>
       ELSE /\ Cardinality(intervals) < MaxIntervals
            /\ timerState' = "running"
            /\ intervalRef' = newInterval(intervals)
            /\ intervals' = intervals \cup {newInterval(intervals)}
    /\ UNCHANGED <<mode, timeRemaining, sessionCount, rendered, settings,
                   settingsRef, intervalTotal>>
    /\ UNCHANGED appVars

\* skip() called again right after skip(), before the component has
\* re-rendered: getNextMode and transitionToNextMode are the ones of the
\* last render and still see its mode and sessionCount.
skipAgain ==
    /\ uiEnabled
    /\ Dirty
    /\ lastOp = "skip"
    /\ rendered.mode = "work" => sessionCount < MaxSessions
    /\ lastOp' = "skip"
    /\ clearTimerInterval
    /\ transitionToNextMode(rendered, settingsRef)
    /\ intervalTotal' = getDurationForMode(mode', settingsRef)
    /\ UNCHANGED <<rendered, settings, settingsRef>>
    /\ UNCHANGED appVars

\* The settings record with every duration one minute.
OneMinute ==
    [workDuration |-> 1, shortBreakDuration |-> 1, longBreakDuration |-> 1,
     pomodorosBeforeLongBreak |-> Absent]

InitStale == Init /\ settings = OneMinute

\* The hook with callers that call start and skip without waiting for the
\* re-render.
NextStale == start \/ skip \/ tick \/ render \/ startAgain \/ skipAgain

SpecStale == InitStale /\ [][NextStale]_vars

\* ------------------------------------------- a completion callback throws
\* transitionToNextMode from the callbacks of render r when the completion
\* callback throws: setSessionCount is queued before the call, and the
\* error leaves the function before setMode, setTimeRemaining and
\* setTimerState.
transitionThrows(r) ==
    /\ sessionCount' = IF r.mode = "work" THEN sessionCount + 1 ELSE sessionCount
    /\ called' = IF r.mode = "work" THEN [work |-> 1, break |-> 0]
                                    ELSE [work |-> 0, break |-> 1]
    /\ UNCHANGED <<mode, timeRemaining, timerState>>

\* skip() when the callback throws: clearTimerInterval has run, the error
\* leaves the event handler and the queued update is rendered.
skipThrows ==
    /\ uiEnabled
    /\ ~Dirty
    /\ rendered.mode = "work" => sessionCount < MaxSessions
    /\ lastOp' = "skipThrew"
    /\ clearTimerInterval
    /\ transitionThrows(rendered)
    /\ UNCHANGED <<rendered, settings, settingsRef, intervalTotal>>
    /\ UNCHANGED appVars

\* The render after the tick to 0 when the callback throws: the error
\* leaves the completion effect, React unmounts the component (the cleanup
\* clears the interval) and the queued update is never rendered.
renderThrows ==
    /\ mounted
    /\ Dirty
    /\ timeRemaining = 0 /\ timerState = "running"
    /\ rendered' = hookState
    /\ lastOp' = "completeThrew"
    /\ called' = IF mode = "work" THEN [work |-> 1, break |-> 0]
                                  ELSE [work |-> 0, break |-> 1]
    /\ mounted' = FALSE
    /\ clearTimerInterval
    /\ UNCHANGED <<mode, timerState, timeRemaining, sessionCount, settings,
                   settingsRef, intervalTotal, isLoaded, stored, threw,
                   lastSaved, lastArg, panelVars, counterVars, keyVars, themeVars>>

\* The hook with completion callbacks that may throw.
NextThrow == start \/ skip \/ tick \/ render \/ skipThrows \/ renderThrows

SpecThrow == InitStale /\ [][NextThrow]_vars

\* ------------------------------------------------------------ properties
Transitions == {"skip", "complete"}
Breaks == {"shortBreak", "longBreak"}

ticks[n \in Nat, t \in Nat] ==
    IF n = 0 THEN t
    ELSE IF n = 1 THEN tickUpdater(t)
    ELSE ticks[n - (n \div 2), ticks[n \div 2, t]]

\* The countdown of a timer that is started and left alone for as many
\* seconds as it has left.
runToZero(t) == ticks[t, t]

\* The hook state reached from h by letting the countdown of h.mode run to
\* zero: the completion effect acts on timeRemaining = 0 while running.
naturalCompletion(h, sref) ==
    LET atZero == [h EXCEPT !.timeRemaining = runToZero(h.timeRemaining),
                            !.timerState = "running"]
    IN IF atZero.timeRemaining = 0 /\ atZero.timerState = "running"
       THEN [mode |-> getNextMode(atZero.mode, atZero.sessionCount, sref),
             timerState |-> "idle",
             timeRemaining |-> getDurationForMode(
                 getNextMode(atZero.mode, atZero.sessionCount, sref), sref),
             sessionCount |-> IF atZero.mode = "work" THEN atZero.sessionCount + 1
                              ELSE atZero.sessionCount]
       ELSE atZero

C12_PauseNoOp ==
    [][ lastOp' = "pause" /\ timerState # "running" =>
          /\ hookState' = hookState
          /\ intervals' = intervals
          /\ intervalRef' = intervalRef
          /\ called' = NoCalls ]_vars

\* pause() was called a second time on a paused timer.
C12_Witness ==
    /\ lastOp = "pause"
    /\ rendered.timerState = "paused"
    /\ timerState = "paused"
    /\ timeRemaining < intervalTotal

C14_ModeFrame ==
    [][ /\ lastOp' \in {"start", "pause", "reset"} =>
              mode' = mode /\ sessionCount' = sessionCount /\ called' = NoCalls
        /\ mode' # mode \/ sessionCount' # sessionCount => lastOp' \in Transitions ]_vars

\* reset() was called during a long break after four sessions.
C14_Witness ==
    /\ lastOp = "reset"
    /\ mode = "longBreak"
    /\ sessionCount = 4
    /\ rendered.timerState = "running"

\* C15: for every duration triple given at construction the initial state is
\* mode work, timerState idle, sessionCount 0 and timeRemaining = 60 * the
\* work duration; omitted fields take 25 / 5 / 15 and the long-break
\* threshold is 4.
C15_InitialState ==
    lastOp = "init" =>
        /\ mode = "work" /\ timerState = "idle" /\ sessionCount = 0
        /\ timeRemaining = 60 * (IF settings.workDuration = Absent THEN 25
                                 ELSE settings.workDuration)
        /\ settingsRef.workDuration =
              (IF settings.workDuration = Absent THEN 25 ELSE settings.workDuration)
        /\ settingsRef.shortBreakDuration =
              (IF settings.shortBreakDuration = Absent THEN 5
               ELSE settings.shortBreakDuration)
        /\ settingsRef.longBreakDuration =
              (IF settings.longBreakDuration = Absent THEN 15
               ELSE settings.longBreakDuration)
        /\ settingsRef.pomodorosBeforeLongBreak = 4

\* A timer constructed with the work duration given and the breaks left out.
C15_Witness ==
    /\ lastOp = "init"
    /\ settings.workDuration = MaxDur
    /\ settings.shortBreakDuration = Absent
    /\ settings.longBreakDuration = Absent
    /\ timeRemaining = MaxDur * 60

C17_SettingsDeferred ==
    [][ /\ lastOp' = "settings" =>
              hookState' = hookState /\ intervals' = intervals
        /\ lastOp' = "reset" =>
              timeRemaining' = getDurationForMode(mode', mergedSettings(settings'))
        /\ lastOp' \in Transitions =>
              timeRemaining' = getDurationForMode(mode', mergedSettings(settings')) ]_vars

\* The record was replaced while a countdown was paused part-way.
C17_Witness ==
    /\ lastOp = "settings"
    /\ timerState = "paused"
    /\ timeRemaining < intervalTotal
    /\ intervalTotal # getDurationForMode(mode, mergedSettings(settings))

\* C18: in the composed application, once the settings load has completed
\* and before any user operation, timeRemaining is 60 * the loaded
\* workDuration.
C18_LoadedFeedsTimer ==
    isLoaded /\ lastOp = "load" =>
        timeRemaining = getDurationForMode("work", mergedSettings(settings))

storedObject ==
    /\ stored # NoEntry
    /\ stored.text = "json"
    /\ stored.value.t = "object"

\* The record has each of its three durations in [1, 60].
inRange(r) == \A f \in DurationFields : r[f] \in MinDuration..MaxDuration

\* C21: a load of a stored JSON object keeps each of the three fields that is
\* a number in [1, 60] and replaces each field that is missing, not a number
\* or outside [1, 60] by its default, whatever the other fields are.
C21_FieldwiseMerge ==
    [][ lastOp' = "load" /\ ~threw' /\ storedObject =>
          \A f \in DurationFields :
              settings'[f] =
                  IF /\ stored.value.fields[f].t = "number"
                     /\ stored.value.fields[f].v \in MinDuration..MaxDuration
                  THEN stored.value.fields[f].v
                  ELSE DEFAULT_DURATIONS[f] ]_vars

\* A load has kept a stored 60 next to a field above 60 and a missing one.
C21_Witness ==
    /\ lastOp = "load"
    /\ storedObject
    /\ stored.value.fields.workDuration = Num(MaxDuration)
    /\ stored.value.fields.shortBreakDuration = Num(MaxDuration + 1)
    /\ stored.value.fields.longBreakDuration = Undefined
    /\ settings.workDuration = MaxDuration
    /\ settings.shortBreakDuration = DefaultShortBreakDuration
    /\ settings.longBreakDuration = DefaultLongBreakDuration

\* C22: a load with no entry, with text that is not JSON, with JSON null or
\* a non-object, or whose storage read throws, leaves the defaults in memory
\* and sets isLoaded.
C22_LoadNeverFails ==
    [][ /\ lastOp' = "load"
        /\ \/ threw'
           \/ ~truthy(stored)
           \/ stored.value.t \notin {"object", "array"}
        => settings' = DEFAULT_DURATIONS /\ isLoaded' ]_vars

\* The read of a stored valid record threw, and the store is loaded with
\* the defaults.
C22_Witness ==
    /\ lastOp = "load"
    /\ threw
    /\ storedObject
    /\ stored.value.fields.workDuration = Num(MaxDuration)
    /\ isLoaded
    /\ settings = DEFAULT_DURATIONS

\* C23: a load by a new store instance, over an entry that saveSettings(r)
\* wrote with the three durations of r in [1, 60], yields r.
C23_RoundTrip ==
    [][ /\ lastOp' = "load"
        /\ ~threw'
        /\ lastSaved # NotSaved
        /\ inRange(lastSaved)
        => settings' = lastSaved ]_vars

\* A new instance has loaded the saved record {60, 1, 60}.
C23_Witness ==
    /\ lastOp = "load"
    /\ lastSaved # NotSaved
    /\ settings = lastSaved
    /\ settings.workDuration = MaxDuration
    /\ settings.shortBreakDuration = MinDuration
    /\ settings.longBreakDuration = MaxDuration

\* C24: after any sequence of load, saveSettings and resetSettings each of
\* the three durations of the in-memory record is in [1, 60].
C24_DurationsInRange == inRange(settings)

\* C25: saveSettings(r) sets the in-memory record to r whether or not the
\* write throws, and a write that throws leaves the entry as it was.
C25_SaveUpdatesMemory ==
    [][ lastOp' = "saveSettings" =>
          /\ settings' = lastArg'
          /\ isLoaded'
          /\ (threw' => stored' = stored) ]_vars

\* A save whose write threw: the record is in memory, the entry is an
\* older one.
C25_Witness ==
    /\ lastOp = "saveSettings"
    /\ threw
    /\ settings = lastArg
    /\ stored # JSONstringify(settings)

\* C26: resetSettings() sets the in-memory record to the defaults whether or
\* not the removal throws, a removal that does not throw leaves no entry,
\* and a load that finds no entry yields the defaults.
C26_Reset ==
    [][ /\ (lastOp' = "resetSettings" =>
               /\ settings' = DEFAULT_DURATIONS
               /\ isLoaded'
               /\ (~threw' => stored' = NoEntry))
        /\ (lastOp' = "load" /\ ~threw' /\ stored = NoEntry =>
               settings' = DEFAULT_DURATIONS) ]_vars

\* A reset after a save of {60, 60, 60}: the defaults are in memory and the
\* entry is gone.
C26_Witness ==
    /\ lastOp = "resetSettings"
    /\ ~threw
    /\ lastArg # NotSaved
    /\ lastArg.workDuration = MaxDuration
    /\ stored = NoEntry
    /\ settings = DEFAULT_DURATIONS

\* ---------------------------------------------------- the settings form
\* Every form value is a number in [1, 60].
formValid ==
    \A f \in DurationFields :
        formValues[f].t = "number" /\ formValues[f].v \in MinDuration..MaxDuration

\* C27: onDurationsChange is called only by a submit of a form whose three
\* values are numbers in [1, 60], with exactly those values; a submit while
\* a value is invalid calls nothing, saves nothing and leaves the panel
\* open.
C27_FormNeverSavesInvalid ==
    [][ /\ (durationsChange' # NoCall =>
               /\ lastOp' = "handleSubmit"
               /\ formValid
               /\ \A f \in DurationFields : durationsChange'[f] = formValues[f].v)
        /\ (lastOp' = "handleSubmit" /\ formValid => durationsChange' # NoCall)
        /\ (lastOp' = "handleSubmit" /\ ~formValid =>
               /\ durationsChange' = NoCall
               /\ settings' = settings
               /\ stored' = stored
               /\ isSettingsOpen') ]_vars

\* A submit was blocked with 61 in the work field and an empty long-break
\* field.
C27_Witness ==
    /\ lastOp = "handleSubmit"
    /\ isSettingsOpen
    /\ formValues.workDuration = Num(MaxDuration + 1)
    /\ formValues.shortBreakDuration = Num(MinDuration)
    /\ formValues.longBreakDuration = EmptyString
    /\ errors.workDuration = "Maximum 60 minutes"
    /\ durationsChange = NoCall

\* ------------------------------------------------ the session counter
\* C28: once the counter is loaded its displayed count is the largest of the
\* count loaded from the storage and every sessionCount prop since the load,
\* and no render makes it smaller.
C28_DisplayNeverDecreases ==
    [][ counterIsLoaded' =>
          /\ displayCount' = maxSeen'
          /\ (counterIsLoaded => displayCount' >= displayCount) ]_vars

\* The counter shows MaxCount after it was rendered again with the prop 0.
C28_Witness ==
    /\ counterIsLoaded
    /\ lastOp = "rerenderCounter"
    /\ sessionCountProp = 0
    /\ displayCount = MaxCount

\* C29: the render that hands a loaded counter the engine's sessionCount
\* after a completed work session (the prop grows by one) adds one to the
\* displayed count, writes the new count to the storage (unless the write
\* throws) and passes it to onSessionComplete.
C29_EachSessionCounted ==
    [][ /\ counterIsLoaded
        /\ lastOp' = "render"
        /\ sessionCountProp' = sessionCountProp + 1
        => /\ displayCount' = displayCount + 1
           /\ sessionComplete' = sessionCountProp'
           /\ (storedSessions' = toString(sessionCountProp') \/ sessionWriteThrew') ]_vars

\* The focused element is one the user types into: an input, a textarea, a
\* select, or an element with contenteditable="true".
typingElement(element) ==
    /\ element # NoElement
    /\ \/ element.tagName \in {"INPUT", "TEXTAREA", "SELECT"}
       \/ element.contenteditable = "true"

persistedRecord == loadedRecord(stored, FALSE, DEFAULT_DURATIONS)

\* C35: after a load, and after every saveSettings and resetSettings whose
\* storage operation did not fail, the sanitized persisted entry is the
\* in-memory record, field by field.
C35_StoreConsistent ==
    isLoaded /\ ~threw =>
        \A f \in DurationFields : persistedRecord[f] = settings[f]

\* ------------------------------------------- leaving the settings form
\* C36: closing the panel (Cancel, the close button, the backdrop, Escape)
\* and 'Reset to Defaults' call no onDurationsChange and leave the store's
\* record and the persisted entry as they were; opening the panel shows
\* the store's record with no error, whatever edits were abandoned.
C36_CloseDiscardsEdits ==
    [][ /\ (lastOp' \in {"closeSettings", "handleResetDefaults"} =>
               /\ durationsChange' = NoCall
               /\ settings' = settings
               /\ stored' = stored)
        /\ (lastOp' = "openSettings" =>
               /\ formValues' = formOf(settings')
               /\ errors' = NoErrors
               /\ settings' = settings) ]_vars

\* The panel was closed with 'Reset to Defaults' not saved, over a stored
\* work duration of one minute: the abandoned defaults are still in the
\* closed form, the store still holds the minute.
C36_Witness ==
    /\ lastOp = "closeSettings"
    /\ ~isSettingsOpen
    /\ settings.workDuration = MinDuration
    /\ formValues = formOf(DEFAULT_DURATIONS)
    /\ durationsChange = NoCall

\* ------------------------------------- calls from a stale rendered snapshot
\* C32: every scheduled interval is the one intervalRef refers to, also
\* when start() is called twice from the same rendered snapshot.
C32_NoOrphanInterval == \A i \in intervals : i = intervalRef

\* C33: whenever the mode is a break, it is the long break iff sessionCount
\* is a multiple of pomodorosBeforeLongBreak, also when skip() is called
\* more than once from the same rendered snapshot.
C33_BreakMatchesCount ==
    mode \in {"shortBreak", "longBreak"} =>
        (mode = "longBreak" <=>
             sessionCount % settingsRef.pomodorosBeforeLongBreak = 0)

\* ------------------------------------------- a completion callback throws
\* C34: a skip() or a natural completion whose callback throws either
\* applies all of the transition's changes to sessionCount, mode,
\* timeRemaining and timerState or none of them, and afterwards a mounted
\* engine that is running with time left has its interval.
C34_TransitionAtomic ==
    [][ lastOp' \in {"skipThrew", "completeThrew"} =>
          /\ \/ /\ sessionCount' = sessionCount
                /\ mode' = mode
                /\ timeRemaining' = timeRemaining
                /\ timerState' = timerState
             \/ /\ sessionCount' =
                     IF mode = "work" THEN sessionCount + 1 ELSE sessionCount
                /\ mode' = getNextMode(mode, sessionCount, settingsRef)
                /\ timeRemaining' = getDurationForMode(mode', settingsRef)
                /\ timerState' = "idle"
          /\ (mounted' /\ timerState' = "running" /\ timeRemaining' > 0 =>
                 intervalRef' \in intervals') ]_vars

\* ------------------------------------------------------- the theme
\* C31: a system colour-scheme change after the load sets the theme to the
\* new system value if the user has never chosen a theme, and leaves the
\* theme as it is once the user has chosen one.
C31_ThemeFollowsSystem ==
    [][ lastOp' = "systemChange" =>
          theme' = IF userChose THEN theme ELSE systemTheme(systemDark') ]_vars

====
